---- MODULE Spec2Model ----
(***************************************************************************)
(* json-fg-validator: the executable test suite of                         *)
(* json_fg_validator/json_fg/ets.py (class JSONFGTestSuite), the validate  *)
(* command of json_fg_validator/ets.py and the loader parse_json_fg of     *)
(* json_fg_validator/util.py.                                              *)
(*                                                                         *)
(* A document is a Python dict: a function whose DOMAIN is the set of      *)
(* members that are present.  data.get(k) is None exactly when k is not    *)
(* in DOMAIN data (a JSON null member is modelled as an absent one).       *)
(* A call of a check either returns a status dict or raises: it is an      *)
(* outcome record [raised |-> <exception class or "none">, status |-> ...].*)
(***************************************************************************)
EXTENDS Integers, Sequences, FiniteSets, TLC

VARIABLES
    data,                       \* self.data: the parsed document
    fail_on_schema_validation,  \* the argument of run_tests
    schema_store,               \* files under JSON_FG_FILES/json-fg/0.1.1
    iter_errors,                \* what validator.iter_errors(self.data) yields
    pc,                         \* position inside run_tests
    tests,                      \* run_tests: local list of check names
    validation_result,          \* run_tests: the gate's result (<<>> = unset)
    results,                    \* run_tests: local list of statuses
    ets_report,                 \* the returned report (<<>> = none returned)
    exc,                        \* the exception that left run_tests
    calls,                      \* history: names of the checks invoked, in order
    schema_opens,               \* history: number of schema.open() calls
    file_or_url,                \* validate: the command's argument
    source_text,                \* the text stored at file_or_url
    content,                    \* validate: what is handed to parse_json_fg
    cli                         \* position inside validate ("library": not run)

cli_vars == <<file_or_url, source_text, content, cli>>

vars == <<data, fail_on_schema_validation, schema_store, iter_errors, pc, tests,
          validation_result, results, ets_report, exc, calls, schema_opens,
          file_or_url, source_text, content, cli>>

(***************************************************************************)
(* Bounds of the model.                                                    *)
(***************************************************************************)
MaxErrors == 2      \* most schema violations the validator reports
MaxInterval == 2    \* most endpoints of time.interval
MaxCoords == 2      \* most coordinate tuples of a LineString

(***************************************************************************)
(* Small helpers.                                                          *)
(***************************************************************************)
Restrict(f, K) == [k \in K |-> f[k]]

SeqsUpTo(S, n) == UNION {[1..k -> S] : k \in 0..n}

Returned(status) == [raised |-> "none", args |-> <<>>, status |-> status]

Raised(cls, args) == [raised |-> cls, args |-> args, status |-> <<>>]

\* dict.update on a status record: the members of upd replace those of status
Update(status, upd) == upd @@ status

(***************************************************************************)
(* gen_test_id                                                             *)
(***************************************************************************)
gen_test_id(test_id) == "http://www.opengis.net/spec/json-fg-1/0.2/" \o test_id

(***************************************************************************)
(* dateutil.parser.parse, on the strings the model draws from.  A parsed   *)
(* value is a datetime: its calendar day (of January 2023), its minute of  *)
(* the day, and its tzinfo: "naive" (none), "UTC" (tzutc) or "offset" (a   *)
(* fixed offset of utcoffset minutes).  Strings the parser cannot          *)
(* interpret raise ParserError.                                            *)
(***************************************************************************)
DateStrings == {"2023-01-01", "2023-01-02"}

TimestampStrings == {"2023-01-01T10:00:00Z", "2023-01-02T10:00:00Z",
                     "2023-01-01T15:00:00+05:00", "2023-01-01T10:00:00"}

UnparseableStrings == {"..", "tomorrow", "not-a-timestamp"}

Datetime(day, minute, tz, off) ==
    [ok |-> TRUE, day |-> day, minute |-> minute, tzinfo |-> tz, utcoffset |-> off]

dateutil_parse(s) ==
    CASE s = "2023-01-01" -> Datetime(1, 0, "naive", 0)
      [] s = "2023-01-02" -> Datetime(2, 0, "naive", 0)
      [] s = "2023-01-01T10:00:00Z" -> Datetime(1, 600, "UTC", 0)
      [] s = "2023-01-02T10:00:00Z" -> Datetime(2, 600, "UTC", 0)
      [] s = "2023-01-01T15:00:00+05:00" -> Datetime(1, 900, "offset", 300)
      [] s = "2023-01-01T10:00:00" -> Datetime(1, 600, "naive", 0)
      [] OTHER -> [ok |-> FALSE, day |-> 0, minute |-> 0, tzinfo |-> "naive",
                   utcoffset |-> 0]

\* datetime.date()
date(dt) == dt.day

\* datetime.__eq__: a naive and an aware datetime are never equal; two aware
\* ones are equal when they are the same instant; two naive ones field-wise
datetime_eq(a, b) ==
    IF (a.tzinfo = "naive") # (b.tzinfo = "naive") THEN FALSE
    ELSE a.day * 1440 + a.minute - a.utcoffset = b.day * 1440 + b.minute - b.utcoffset

\* datetime.tzname(): 'UTC' for tzutc, None otherwise
tzname(dt) == IF dt.tzinfo = "UTC" THEN "UTC" ELSE "None"

(***************************************************************************)
(* shapely.geometry.shape(geometry).coords.  A Point has one tuple, a      *)
(* LineString its tuples (shapely rejects tuples of differing length with  *)
(* ValueError); a Polygon has no coordinate sequence of its own and        *)
(* .coords raises NotImplementedError.                                     *)
(***************************************************************************)
shape_coords(geometry) ==
    CASE geometry.type = "Point" ->
            [raised |-> "none", coords |-> <<geometry.coordinates>>]
      [] geometry.type = "LineString" ->
            IF \A i, j \in DOMAIN geometry.coordinates :
                   Len(geometry.coordinates[i]) = Len(geometry.coordinates[j])
            THEN [raised |-> "none", coords |-> geometry.coordinates]
            ELSE [raised |-> "ValueError", coords |-> <<>>]
      [] OTHER -> [raised |-> "NotImplementedError", coords |-> <<>>]

(***************************************************************************)
(* test_requirement_validation.  store is the set of schema files that     *)
(* exist, errs the violations the validator yields for the document.       *)
(***************************************************************************)
SchemaFiles == {"feature.json", "featurecollection.json"}

SchemaStoreMissingMsg ==
    "JSON FG schemas missing. Run 'json-fg-validator bundle sync' to cache"

\* lines 120-123: the schema file name, or "<unbound>" when neither branch
\* of the if/elif assigns the local
schema_name(type) ==
    CASE type = "Feature" -> "feature.json"
      [] type = "FeatureCollection" -> "featurecollection.json"
      [] OTHER -> "<unbound>"

\* lines 140-143
validation_status(errs) ==
    IF errs # <<>>
    THEN [id |-> gen_test_id("req/core/schema-valid"), code |-> "FAILED",
          message |-> <<Len(errs), " error(s)">>, errors |-> errs]
    ELSE [id |-> gen_test_id("req/core/schema-valid"), code |-> "PASSED"]

\* a validation that reports a missing schema file as a failed requirement
test_requirement_validation_NoStoreCheck(d, store, errs) ==
    IF "type" \notin DOMAIN d THEN Raised("KeyError", "type")
    ELSE IF schema_name(d.type) = "<unbound>"
         THEN Raised("UnboundLocalError", "schema")
    ELSE IF schema_name(d.type) \notin store
         THEN Returned(validation_status(<<SchemaStoreMissingMsg>>))
    ELSE Returned(validation_status(errs))

test_requirement_validation(d, store, errs) ==
    IF "type" \notin DOMAIN d THEN Raised("KeyError", "type")
    ELSE IF schema_name(d.type) = "<unbound>"
         THEN Raised("UnboundLocalError", "schema")
    ELSE IF schema_name(d.type) \notin store
         THEN Raised("RuntimeError", SchemaStoreMissingMsg)
    ELSE Returned(validation_status(errs))

\* whether a call of test_requirement_validation reaches schema.open()
validation_opens_schema(d, store) ==
    /\ "type" \in DOMAIN d
    /\ schema_name(d.type) \in store

(***************************************************************************)
(* test_requirement_conformance                                            *)
(***************************************************************************)
conformance_classes ==
    <<"http://www.opengis.net/spec/json-fg-1/0.2/conf/core",
      "[ogc-json-fg-1-0.2:core]">>

\* cc in conformance, for a list
In(x, list) == \E i \in DOMAIN list : list[i] = x

test_requirement_conformance(d) ==
    LET status == [id |-> gen_test_id("req/core/metadata"), code |-> "PASSED"]
    IN  IF "conformsTo" \notin DOMAIN d
        THEN \* status is set to FAILED, then `cc in None` raises
             Raised("TypeError", "argument of type 'NoneType' is not iterable")
        ELSE LET found == \E k \in DOMAIN conformance_classes :
                              In(conformance_classes[k], d.conformsTo)
             IN  IF ~found
                 THEN Returned(Update(status,
                          [code |-> "FAILED",
                           message |-> "Missing valid conformsTo member"]))
                 ELSE Returned(status)

(***************************************************************************)
(* test_requirement_temporal_instant, test_requirement_temporal_interval   *)
(***************************************************************************)
test_requirement_temporal_instant(d) ==
    Returned([id |-> gen_test_id("req/core/instant"), code |-> "PASSED",
              message |-> "Passes given data is compliant/valid to schema"])

test_requirement_temporal_interval(d) ==
    Returned([id |-> gen_test_id("req/core/interval"), code |-> "PASSED",
              message |-> "Passes given data is compliant/valid to schema"])

(***************************************************************************)
(* test_requirement_temporal_instant_and_interval                          *)
(***************************************************************************)
\* lines 224-229
date_timestamp_rule(status, time_) ==
    IF "date" \in DOMAIN time_ /\ "timestamp" \in DOMAIN time_
    THEN IF date(dateutil_parse(time_.date)) # date(dateutil_parse(time_.timestamp))
         THEN Update(status, [code |-> "FAILED",
                  message |-> "date and timestamp full-date not identical"])
         ELSE status
    ELSE status

\* lines 231-249 (member = "timestamp") and 251-269 (member = "date")
interval_rule(status, time_, member) ==
    IF member \in DOMAIN time_ /\ "interval" \in DOMAIN time_
    THEN LET value == dateutil_parse(time_[member])
             found1 == \E i \in DOMAIN time_.interval :
                           date(value) = date(dateutil_parse(time_.interval[i]))
             found2 == \E i \in DOMAIN time_.interval :
                           datetime_eq(value, dateutil_parse(time_.interval[i]))
             s1 == IF ~found1
                   THEN Update(status, [code |-> "FAILED",
                            message |-> member \o " full-date not in interval"])
                   ELSE status
         IN  IF ~found2
             THEN Update(s1, [code |-> "FAILED",
                      message |-> member \o " not in interval"])
             ELSE s1
    ELSE status

\* the strings the check hands to dateutil_parse
instant_and_interval_parsed(time_) ==
    LET has(k) == k \in DOMAIN time_
        ends == IF has("interval")
                THEN {time_.interval[i] : i \in DOMAIN time_.interval} ELSE {}
    IN  (IF has("date") /\ (has("timestamp") \/ has("interval"))
         THEN {time_.date} ELSE {})
        \cup (IF has("timestamp") /\ (has("date") \/ has("interval"))
              THEN {time_.timestamp} ELSE {})
        \cup (IF has("timestamp") \/ has("date") THEN ends ELSE {})

test_requirement_temporal_instant_and_interval(d) ==
    LET status == [id |-> gen_test_id("req/core/instant-and-interval"),
                   code |-> "PASSED"]
    IN  IF "time" \notin DOMAIN d
        THEN Returned(Update(status, [code |-> "SKIPPED",
                          message |-> "Skipping given time is null"]))
        ELSE IF \E s \in instant_and_interval_parsed(d.time) : ~dateutil_parse(s).ok
             THEN Raised("ParserError", "Unknown string format")
             ELSE Returned(interval_rule(
                               interval_rule(date_timestamp_rule(status, d.time),
                                             d.time, "timestamp"),
                               d.time, "date"))

(***************************************************************************)
(* test_requirement_temporal_utc                                           *)
(***************************************************************************)
RECURSIVE SelectLong(_)
\* lines 295-298: the interval endpoints longer than 11 characters
SelectLong(interval) ==
    IF interval = <<>> THEN <<>>
    ELSE (IF Len(Head(interval)) > 11 THEN <<Head(interval)>> ELSE <<>>)
         \o SelectLong(Tail(interval))

timestamps_to_validate(time_) ==
    (IF "timestamp" \in DOMAIN time_ THEN <<time_.timestamp>> ELSE <<>>)
    \o (IF "interval" \in DOMAIN time_ THEN SelectLong(time_.interval) ELSE <<>>)

test_requirement_temporal_utc(d) ==
    LET status == [id |-> gen_test_id("req/core/utc"), code |-> "PASSED"]
    IN  IF "time" \notin DOMAIN d
        THEN Returned(Update(status, [code |-> "SKIPPED", message |-> "Time is null"]))
        ELSE LET ttv == timestamps_to_validate(d.time)
             IN  IF \E i \in DOMAIN ttv : ~dateutil_parse(ttv[i]).ok
                 THEN Raised("ParserError", "Unknown string format")
                 ELSE IF \E i \in DOMAIN ttv : tzname(dateutil_parse(ttv[i])) # "UTC"
                      THEN Returned(Update(status, [code |-> "FAILED",
                               message |-> "Timestamp is not in UTC format"]))
                      ELSE Returned(status)

(***************************************************************************)
(* test_requirement_coordinate_dimension                                   *)
(***************************************************************************)
test_requirement_coordinate_dimension(d) ==
    LET status == [id |-> gen_test_id("req/core/coordinate-dimension"),
                   code |-> "PASSED"]
    IN  IF "geometry" \notin DOMAIN d
        THEN Returned(Update(status, [code |-> "SKIPPED",
                          message |-> "Geometry is null"]))
        ELSE LET g == shape_coords(d.geometry)
                 coord_dims == {Len(g.coords[i]) : i \in DOMAIN g.coords}
             IN  IF g.raised # "none" THEN Raised(g.raised, "shape")
                 ELSE IF Cardinality(coord_dims) > 1
                      THEN Returned(Update(status, [code |-> "FAILED",
                               message |-> "Geometry dimensions are inconsistent"]))
                      ELSE Returned(status)

(***************************************************************************)
(* test_requirement_geometry_wgs84                                         *)
(***************************************************************************)
\* line 356: (-180 > c[0] > 180) or (-90 > c[1] > 90), Python's chained
\* comparison: a > b > c is (a > b) and (b > c)
out_of_bounds(c) ==
    \/ (-180 > c[1] /\ c[1] > 180)
    \/ (-90 > c[2] /\ c[2] > 90)

test_requirement_geometry_wgs84(d) ==
    LET status == [id |-> gen_test_id("req/core/geometry-wgs84"), code |-> "PASSED"]
    IN  IF "geometry" \notin DOMAIN d
        THEN Returned(Update(status, [code |-> "SKIPPED",
                          message |-> "Geometry is null"]))
        ELSE LET g == shape_coords(d.geometry)
             IN  IF g.raised # "none" THEN Raised(g.raised, "shape")
                 ELSE IF \E i \in DOMAIN g.coords : out_of_bounds(g.coords[i])
                      THEN Returned(Update(status, [code |-> "FAILED",
                               message |-> "Geometry coordinates are out of bounds"]))
                      ELSE Returned(status)

(***************************************************************************)
(* The documents the model draws from.                                     *)
(***************************************************************************)
\* the optional member k, absent or with a value of S
Member(k, S) == {<<>>} \cup {[x \in {k} |-> v] : v \in S}

CoreDoc == [type |-> "Feature", conformsTo |-> <<conformance_classes[1]>>]

ConformsToValues ==
    {<<"unrelated">>, <<conformance_classes[1]>>,
     <<"unrelated", conformance_classes[2]>>}

TimeObjects(dates, timestamps, intervals) ==
    {a @@ b @@ c : a \in Member("date", dates),
                   b \in Member("timestamp", timestamps),
                   c \in Member("interval", intervals)}

Point(c) == [type |-> "Point", coordinates |-> c]

LineString(cs) == [type |-> "LineString", coordinates |-> cs]

Polygon == [type |-> "Polygon",
            coordinates |-> <<<< <<0, 0>>, <<10, 0>>, <<10, 10>>, <<0, 0>> >>>>]

\* a few documents of every kind, all members varying together
SmallTimes ==
    {[date |-> "2023-01-01", timestamp |-> "2023-01-01T10:00:00Z"],
     [date |-> "2023-01-01", timestamp |-> "2023-01-02T10:00:00Z"],
     [timestamp |-> "2023-01-01T15:00:00+05:00"],
     [timestamp |-> "2023-01-01T10:00:00Z",
      interval |-> <<"2023-01-01T10:00:00Z", "..">>]}

SmallGeometries == {Point(<<100, 10>>), Point(<<200, 10>>), Polygon}

Documents ==
    {a @@ b @@ c @@ d :
        a \in Member("type", {"Feature", "FeatureCollection", "Point"}),
        b \in Member("conformsTo", ConformsToValues),
        c \in Member("time", SmallTimes),
        d \in Member("geometry", SmallGeometries)}

\* documents that differ in `time` only
IntervalEndpoints == {"2023-01-01", "2023-01-01T10:00:00Z",
                      "2023-01-01T15:00:00+05:00", "..", "not-a-timestamp"}

TemporalDocuments ==
    {CoreDoc @@ c :
        c \in Member("time",
                     TimeObjects(DateStrings \cup {"tomorrow"}, TimestampStrings,
                                 SeqsUpTo(IntervalEndpoints, MaxInterval)))}

\* documents that differ in `geometry` only
CoordinateTuples == {<<100, 10>>, <<200, 10>>, <<100, 95>>, <<-181, -91>>,
                     <<180, 90>>, <<100, 10, 5>>}

GeometryDocuments ==
    {CoreDoc @@ d :
        d \in Member("geometry",
                     {Point(c) : c \in CoordinateTuples}
                     \cup {LineString(cs) :
                              cs \in SeqsUpTo(CoordinateTuples, MaxCoords)
                                     \ SeqsUpTo(CoordinateTuples, 1)}
                     \cup {Polygon})}

\* the violations a validator run reports: the first n of these
ViolationPool ==
    <<"$: 'properties' is a required property",
      "$: 'place' is a required property",
      "$.time: 'now' is not of type 'object'",
      "$.geometry: 1 is not of type 'object'">>

Violations == {SubSeq(ViolationPool, 1, n) : n \in 0..MaxErrors}

(***************************************************************************)
(* run_tests                                                               *)
(***************************************************************************)
\* the checks in the order the class declares them
RegisteredTests_DeclarationOrder ==
    <<"test_requirement_validation",
      "test_requirement_conformance",
      "test_requirement_temporal_instant",
      "test_requirement_temporal_interval",
      "test_requirement_temporal_instant_and_interval",
      "test_requirement_temporal_utc",
      "test_requirement_coordinate_dimension",
      "test_requirement_geometry_wgs84">>

\* lines 79-84: dir(JSONFGTestSuite) lists the attribute names in
\* alphabetical order; those starting with test_requirement are kept
RegisteredTests ==
    <<"test_requirement_conformance",
      "test_requirement_coordinate_dimension",
      "test_requirement_geometry_wgs84",
      "test_requirement_temporal_instant",
      "test_requirement_temporal_instant_and_interval",
      "test_requirement_temporal_interval",
      "test_requirement_temporal_utc",
      "test_requirement_validation">>

\* line 95: getattr(self, t)()
CallTest(t, d, store, errs) ==
    CASE t = "test_requirement_conformance" -> test_requirement_conformance(d)
      [] t = "test_requirement_coordinate_dimension" ->
            test_requirement_coordinate_dimension(d)
      [] t = "test_requirement_geometry_wgs84" -> test_requirement_geometry_wgs84(d)
      [] t = "test_requirement_temporal_instant" ->
            test_requirement_temporal_instant(d)
      [] t = "test_requirement_temporal_instant_and_interval" ->
            test_requirement_temporal_instant_and_interval(d)
      [] t = "test_requirement_temporal_interval" ->
            test_requirement_temporal_interval(d)
      [] t = "test_requirement_temporal_utc" -> test_requirement_temporal_utc(d)
      [] t = "test_requirement_validation" ->
            test_requirement_validation(d, store, errs)

\* line 97
Codes == {"PASSED", "FAILED", "SKIPPED"}

\* line 98: len([t for t in results if t['code'] == code])
RECURSIVE CountCode(_, _)
CountCode(rs, code) ==
    IF rs = <<>> THEN 0
    ELSE (IF Head(rs).code = code THEN 1 ELSE 0) + CountCode(Tail(rs), code)

\* a tally that forgets the SKIPPED results
Summary_NoSkipped(rs) ==
    [code \in Codes |-> IF code = "SKIPPED" THEN 0 ELSE CountCode(rs, code)]

\* lines 97-99
Summary(rs) == [code \in Codes |-> CountCode(rs, code)]

NoException == [type |-> "none", args |-> <<>>]

NoContent == [kind |-> "none", value |-> ""]

InitWith(docs, stores) ==
    /\ data \in docs
    /\ fail_on_schema_validation \in BOOLEAN
    /\ schema_store \in stores
    /\ iter_errors \in Violations
    \* a document without a recognised `type` has at least one violation
    /\ iter_errors = <<>> =>
           "type" \in DOMAIN data /\ data.type \in {"Feature", "FeatureCollection"}
    /\ pc = "start"
    /\ tests = <<>>
    /\ validation_result = <<>>
    /\ results = <<>>
    /\ ets_report = <<>>
    /\ exc = NoException
    /\ calls = <<>>
    /\ schema_opens = 0
    \* the suite is used as a library: the command is not involved
    /\ file_or_url = ""
    /\ source_text = ""
    /\ content = NoContent
    /\ cli = "library"

Init == InitWith(Documents, {SchemaFiles, {"feature.json"}, {}})

InitTemporal == InitWith(TemporalDocuments, {SchemaFiles})

InitGeometry == InitWith(GeometryDocuments, {SchemaFiles})

\* lines 73-84
Discover ==
    /\ pc = "start"
    /\ tests' = RegisteredTests
    /\ pc' = "gate"
    /\ UNCHANGED <<data, fail_on_schema_validation, schema_store, iter_errors,
                   validation_result, results, ets_report, exc, calls, schema_opens,
                   cli_vars>>

\* lines 86-92
Gate ==
    /\ pc = "gate"
    /\ LET r == test_requirement_validation(data, schema_store, iter_errors)
       IN  /\ calls' = Append(calls, "test_requirement_validation")
           /\ schema_opens' = schema_opens
                 + (IF validation_opens_schema(data, schema_store) THEN 1 ELSE 0)
           /\ IF r.raised # "none"
              THEN /\ exc' = [type |-> r.raised, args |-> r.args]
                   /\ pc' = "raised"
                   /\ UNCHANGED validation_result
              ELSE /\ validation_result' = r.status
                   /\ IF r.status.code = "FAILED" /\ fail_on_schema_validation
                      THEN /\ exc' = [type |-> "ValueError",
                                      args |-> <<"Record fails JSON FG validation. Stopping ETS ",
                                                 <<"errors: ", r.status.errors>> >>]
                           /\ pc' = "raised"
                      ELSE /\ pc' = "loop"
                           /\ UNCHANGED exc
    /\ UNCHANGED <<data, fail_on_schema_validation, schema_store, iter_errors,
                   tests, results, ets_report, cli_vars>>

\* lines 94-95, one iteration
RunTest ==
    /\ pc = "loop"
    /\ Len(results) < Len(tests)
    /\ LET t == tests[Len(results) + 1]
           r == CallTest(t, data, schema_store, iter_errors)
       IN  /\ calls' = Append(calls, t)
           /\ schema_opens' = schema_opens
                 + (IF t = "test_requirement_validation"
                       /\ validation_opens_schema(data, schema_store)
                    THEN 1 ELSE 0)
           /\ IF r.raised # "none"
              THEN /\ exc' = [type |-> r.raised, args |-> r.args]
                   /\ pc' = "raised"
                   /\ UNCHANGED results
              ELSE /\ results' = Append(results, r.status)
                   /\ UNCHANGED <<exc, pc>>
    /\ UNCHANGED <<data, fail_on_schema_validation, schema_store, iter_errors,
                   tests, validation_result, ets_report, cli_vars>>

\* lines 97-105
Tally ==
    /\ pc = "loop"
    /\ Len(results) = Len(tests)
    /\ ets_report' = [summary |-> Summary(results), tests |-> results]
    /\ pc' = "done"
    /\ UNCHANGED <<data, fail_on_schema_validation, schema_store, iter_errors,
                   tests, validation_result, results, exc, calls, schema_opens,
                   cli_vars>>

Next == Discover \/ Gate \/ RunTest \/ Tally

Spec == Init /\ [][Next]_vars

SpecTemporal == InitTemporal /\ [][Next]_vars

SpecGeometry == InitGeometry /\ [][Next]_vars

(***************************************************************************)
(* The validate command of json_fg_validator/ets.py and the loader         *)
(* parse_json_fg of json_fg_validator/util.py.  Every source exists: a     *)
(* file is stored at each path and each URL answers with a body.           *)
(***************************************************************************)
\* str.startswith
startswith(s, prefix) ==
    Len(s) >= Len(prefix) /\ SubSeq(s, 1, Len(prefix)) = prefix

Sources == {"feature.json", "http://example.org/feature.json",
            "https://example.org/feature.json"}

\* json.load: the texts a source may hold and what the decoder makes of them
JsonTexts ==
    {"{\"type\": \"Feature\", \"conformsTo\": [\"http://www.opengis.net/spec/json-fg-1/0.2/conf/core\"]}",
     "{\"type\": \"Feature\", \"time\": {\"timestamp\": \"2023-01-01T15:00:00+05:00\"}}",
     "{\"type\": \"FeatureCollection\", \"conformsTo\": [\"http://www.opengis.net/spec/json-fg-1/0.2/conf/core\"], \"geometry\": {\"type\": \"Point\", \"coordinates\": [100, 10]}}",
     "{\"conformsTo\": [\"unrelated\"]}",
     "{\"type\": \"Feature\"",
     ""}

Decoded(value) == [ok |-> TRUE, value |-> value, msg |-> ""]

JSONDecodeError(msg) == [ok |-> FALSE, value |-> <<>>, msg |-> msg]

json_load(text) ==
    CASE text = "{\"type\": \"Feature\", \"conformsTo\": [\"http://www.opengis.net/spec/json-fg-1/0.2/conf/core\"]}" ->
            Decoded([type |-> "Feature",
                     conformsTo |-> <<"http://www.opengis.net/spec/json-fg-1/0.2/conf/core">>])
      [] text = "{\"type\": \"Feature\", \"time\": {\"timestamp\": \"2023-01-01T15:00:00+05:00\"}}" ->
            Decoded([type |-> "Feature",
                     time |-> [timestamp |-> "2023-01-01T15:00:00+05:00"]])
      [] text = "{\"type\": \"FeatureCollection\", \"conformsTo\": [\"http://www.opengis.net/spec/json-fg-1/0.2/conf/core\"], \"geometry\": {\"type\": \"Point\", \"coordinates\": [100, 10]}}" ->
            Decoded([type |-> "FeatureCollection",
                     conformsTo |-> <<"http://www.opengis.net/spec/json-fg-1/0.2/conf/core">>,
                     geometry |-> [type |-> "Point", coordinates |-> <<100, 10>>]])
      [] text = "{\"conformsTo\": [\"unrelated\"]}" ->
            Decoded([conformsTo |-> <<"unrelated">>])
      [] text = "{\"type\": \"Feature\"" ->
            JSONDecodeError("Expecting ',' delimiter: line 1 column 19 (char 18)")
      [] OTHER ->
            JSONDecodeError("Expecting value: line 1 column 1 (char 0)")

\* util.py lines 195-201.  open(content) takes a path: given the BytesIO
\* object it raises TypeError, which the except clause (JSONDecodeError
\* only) does not catch.  text is what is stored at the path.
parse_json_fg(content_, text) ==
    IF content_.kind # "str"
    THEN Raised("TypeError",
                "expected str, bytes or os.PathLike object, not BytesIO")
    ELSE LET j == json_load(text)
         IN  IF j.ok THEN Returned(j.value)
             ELSE Raised("RuntimeError", "Encoding error: " \o j.msg)

\* click.ClickException(err)
ClickException(cls, args) ==
    [type |-> "ClickException", args |-> <<[type |-> cls, args |-> args]>>]

InitValidate ==
    /\ file_or_url \in Sources
    /\ source_text \in JsonTexts
    /\ content = NoContent
    /\ cli = "open"
    /\ data = <<>>
    /\ fail_on_schema_validation \in BOOLEAN
    /\ schema_store \in {SchemaFiles, {}}
    /\ iter_errors \in Violations
    \* a document without a recognised `type` has at least one violation
    /\ LET j == json_load(source_text)
       IN  IF j.ok
           THEN iter_errors = <<>> =>
                    "type" \in DOMAIN j.value
                    /\ j.value.type \in {"Feature", "FeatureCollection"}
           ELSE iter_errors = <<>>
    /\ pc = "idle"
    /\ tests = <<>>
    /\ validation_result = <<>>
    /\ results = <<>>
    /\ ets_report = <<>>
    /\ exc = NoException
    /\ calls = <<>>
    /\ schema_opens = 0

\* ets.py lines 61-64
Open ==
    /\ cli = "open"
    /\ content' = IF startswith(file_or_url, "http")
                  THEN [kind |-> "BytesIO", value |-> source_text]
                  ELSE [kind |-> "str", value |-> file_or_url]
    /\ cli' = "parse"
    /\ UNCHANGED <<data, fail_on_schema_validation, schema_store, iter_errors,
                   pc, tests, validation_result, results, ets_report, exc,
                   calls, schema_opens, file_or_url, source_text>>

\* ets.py lines 68-74
Parse ==
    /\ cli = "parse"
    /\ LET r == parse_json_fg(content, source_text)
       IN  IF r.raised # "none"
           THEN /\ exc' = ClickException(r.raised, r.args)
                /\ cli' = "error"
                /\ UNCHANGED <<data, pc>>
           ELSE /\ data' = r.status
                /\ pc' = "start"
                /\ cli' = "run_tests"
                /\ UNCHANGED exc
    /\ UNCHANGED <<fail_on_schema_validation, schema_store, iter_errors,
                   tests, validation_result, results, ets_report,
                   calls, schema_opens, file_or_url, source_text, content>>

\* ets.py lines 75-80
Finish ==
    /\ cli = "run_tests"
    /\ pc \in {"done", "raised"}
    /\ IF pc = "raised"
       THEN /\ exc' = ClickException(exc.type, exc.args)
            /\ cli' = "error"
       ELSE /\ cli' = "echoed"
            /\ UNCHANGED exc
    /\ UNCHANGED <<data, fail_on_schema_validation, schema_store, iter_errors,
                   pc, tests, validation_result, results, ets_report,
                   calls, schema_opens, file_or_url, source_text, content>>

NextValidate == Open \/ Parse \/ Discover \/ Gate \/ RunTest \/ Tally \/ Finish

SpecValidate == InitValidate /\ [][NextValidate]_vars

(***************************************************************************)
(* Properties.                                                             *)
(***************************************************************************)
Terminated == pc \in {"done", "raised"}

SchemaValidId == gen_test_id("req/core/schema-valid")

RecognisedTypes == {"Feature", "FeatureCollection"}

HasRecognisedType == "type" \in DOMAIN data /\ data.type \in RecognisedTypes

\* the document is schema-invalid: a validator run reports a violation
SchemaInvalid == iter_errors # <<>>

ReportReturned == pc = "done"

\* C1: in every returned report the three summary counts add up to the
\* number of entries of tests, and each count is the number of entries
\* carrying that code.
C1_SummaryPartitionsTests ==
    ReportReturned =>
        /\ ets_report.summary["PASSED"] + ets_report.summary["FAILED"]
               + ets_report.summary["SKIPPED"] = Len(ets_report.tests)
        /\ \A code \in Codes :
               ets_report.summary[code] =
                   Cardinality({i \in DOMAIN ets_report.tests :
                                    ets_report.tests[i].code = code})

C1_Witness ==
    /\ ReportReturned
    /\ ets_report.summary["PASSED"] > 0
    /\ ets_report.summary["FAILED"] > 0
    /\ ets_report.summary["SKIPPED"] > 0

\* C2 (as claimed): in every returned report the schema-validation result
\* is present and is the first entry of tests.
C2_SchemaValidFirst ==
    ReportReturned =>
        /\ ets_report.tests # <<>>
        /\ ets_report.tests[1].id = SchemaValidId

\* C2 (amended): in every returned report the schema-validation result is
\* present, exactly once, and is the last entry of tests.
C2_SchemaValidLast ==
    ReportReturned =>
        /\ ets_report.tests # <<>>
        /\ ets_report.tests[Len(ets_report.tests)].id = SchemaValidId
        /\ Cardinality({i \in DOMAIN ets_report.tests :
                            ets_report.tests[i].id = SchemaValidId}) = 1

C2_Witness ==
    /\ ReportReturned
    /\ Len(ets_report.tests) > 1
    /\ ets_report.tests[Len(ets_report.tests)].id = SchemaValidId
    /\ ets_report.tests[Len(ets_report.tests)].code = "FAILED"

\* C3: with fail_on_schema_validation true and a schema-invalid document
\* (its `type` recognised or missing, the schema store complete), run_tests
\* ends by raising the validation-aborted ValueError that carries the schema
\* errors, after running the schema-validation check only, with no report.
C3_InvalidDocumentAborts ==
    ( /\ Terminated
      /\ fail_on_schema_validation
      /\ SchemaInvalid
      /\ schema_store = SchemaFiles
      /\ ("type" \notin DOMAIN data \/ data.type \in RecognisedTypes) )
    => /\ pc = "raised"
       /\ exc.type = "ValueError"
       /\ exc.args[2][2] = iter_errors
       /\ calls = <<"test_requirement_validation">>
       /\ DOMAIN ets_report = {}

\* C4: with fail_on_schema_validation false and a document whose
\* schema-validation result is FAILED, run_tests returns a report that holds
\* the FAILED schema-validation entry and one result per registered check.
C4_InvalidDocumentFullReport ==
    ( /\ Terminated
      /\ ~fail_on_schema_validation
      /\ DOMAIN validation_result # {}
      /\ validation_result.code = "FAILED" )
    => /\ ReportReturned
       /\ Len(ets_report.tests) = Len(RegisteredTests)
       /\ \E i \in DOMAIN ets_report.tests :
              /\ ets_report.tests[i].id = SchemaValidId
              /\ ets_report.tests[i].code = "FAILED"

\* C5: an error raised inside a check of the loop never leaves run_tests
\* (past the gate none of the fatal kinds can arise): a run that got past
\* the gate ends with a report of one result per registered check.
C5_CheckErrorsAreCaptured ==
    (Terminated /\ Len(calls) > 1) =>
        /\ exc.type = "none"
        /\ ReportReturned
        /\ Len(ets_report.tests) = Len(RegisteredTests)

\* C6: when the schema file of the document's type is not in the schema
\* store, run_tests ends at the gate by raising the RuntimeError that asks
\* for a bundle sync, whatever fail_on_schema_validation is: no result, no
\* report, no other check, no schema-validation status.
C6_MissingSchemaAborts ==
    ( /\ HasRecognisedType
      /\ schema_name(data.type) \notin schema_store
      /\ calls # <<>> )
    => /\ pc = "raised"
       /\ exc.type = "RuntimeError"
       /\ exc.args = SchemaStoreMissingMsg
       /\ calls = <<"test_requirement_validation">>
       /\ results = <<>>
       /\ DOMAIN ets_report = {}
       /\ DOMAIN validation_result = {}

C6_Witness ==
    /\ HasRecognisedType
    /\ schema_name(data.type) \notin schema_store
    /\ ~fail_on_schema_validation
    /\ SchemaInvalid
    /\ pc = "raised"
    /\ exc.type = "RuntimeError"

\* C7: for a document whose `type` is missing or is neither Feature nor
\* FeatureCollection, the schema-valid check yields a FAILED result or the
\* dedicated SchemaLookupError.
C7_UnrecognisedTypeHandled ==
    (calls # <<>> /\ ~HasRecognisedType)
    => \/ DOMAIN validation_result # {} /\ validation_result.code = "FAILED"
       \/ exc.type = "SchemaLookupError"

ConformanceRecognised ==
    /\ "conformsTo" \in DOMAIN data
    /\ \E i \in DOMAIN data.conformsTo, k \in DOMAIN conformance_classes :
           data.conformsTo[i] = conformance_classes[k]

\* C8: the conformance check returns PASSED iff conformsTo is present and
\* holds a recognised core identifier; absent, it returns FAILED with the
\* 'Missing conformsTo member' message; present without a recognised
\* identifier, FAILED with another message.
C8_ConformanceResult ==
    (Len(calls) >= 2 /\ calls[2] = "test_requirement_conformance")
    => /\ Len(results) >= 1
       /\ results[1].id = gen_test_id("req/core/metadata")
       /\ results[1].code = "PASSED" <=> ConformanceRecognised
       /\ ~ConformanceRecognised => results[1].code = "FAILED"
       /\ "conformsTo" \notin DOMAIN data =>
              results[1].message = "Missing conformsTo member"
       /\ ("conformsTo" \in DOMAIN data /\ ~ConformanceRecognised) =>
              results[1].message # "Missing conformsTo member"

\* the coordinate tuples of a geometry: the position of a Point, the
\* positions of a LineString, the positions of every ring of a Polygon
GeometryTuples(g) ==
    CASE g.type = "Point" -> {g.coordinates}
      [] g.type = "LineString" -> {g.coordinates[i] : i \in DOMAIN g.coordinates}
      [] g.type = "Polygon" ->
            UNION {{g.coordinates[r][i] : i \in DOMAIN g.coordinates[r]} :
                       r \in DOMAIN g.coordinates}

OutsideWGS84(c) == c[1] < -180 \/ c[1] > 180 \/ c[2] < -90 \/ c[2] > 90

\* C9: the WGS84 check returns SKIPPED without a geometry; with one it
\* returns FAILED iff some coordinate tuple has x < -180, x > 180, y < -90
\* or y > 90, and PASSED otherwise.
C9_WGS84Result ==
    (Len(calls) >= 4 /\ calls[4] = "test_requirement_geometry_wgs84")
    => /\ Len(results) >= 3
       /\ results[3].id = gen_test_id("req/core/geometry-wgs84")
       /\ "geometry" \notin DOMAIN data => results[3].code = "SKIPPED"
       /\ "geometry" \in DOMAIN data =>
              /\ results[3].code \in {"PASSED", "FAILED"}
              /\ results[3].code = "FAILED" <=>
                     \E c \in GeometryTuples(data.geometry) : OutsideWGS84(c)

DateOf(s) == date(dateutil_parse(s))

NoEndpointDate(s, interval) ==
    \A i \in DOMAIN interval : DateOf(s) # DateOf(interval[i])

NoEndpointEqual(s, interval) ==
    \A i \in DOMAIN interval :
        ~datetime_eq(dateutil_parse(s), dateutil_parse(interval[i]))

RuleViolated(time_) ==
    \/ /\ "date" \in DOMAIN time_ /\ "timestamp" \in DOMAIN time_
       /\ DateOf(time_.date) # DateOf(time_.timestamp)
    \/ /\ "timestamp" \in DOMAIN time_ /\ "interval" \in DOMAIN time_
       /\ \/ NoEndpointDate(time_.timestamp, time_.interval)
          \/ NoEndpointEqual(time_.timestamp, time_.interval)
    \/ /\ "date" \in DOMAIN time_ /\ "interval" \in DOMAIN time_
       /\ \/ NoEndpointDate(time_.date, time_.interval)
          \/ NoEndpointEqual(time_.date, time_.interval)

InstantAndIntervalCalled ==
    Len(calls) >= 6 /\ calls[6] = "test_requirement_temporal_instant_and_interval"

InstantAndIntervalVerdict ==
    /\ results[5].id = gen_test_id("req/core/instant-and-interval")
    /\ "time" \notin DOMAIN data => results[5].code = "SKIPPED"
    /\ "time" \in DOMAIN data =>
           /\ results[5].code = "FAILED" <=> RuleViolated(data.time)
           /\ results[5].code = "PASSED" <=> ~RuleViolated(data.time)

\* C10: the instant-and-interval check returns SKIPPED without `time`; with
\* it, FAILED iff an applicable pairwise rule is violated and PASSED
\* otherwise.
C10_InstantAndIntervalResult ==
    InstantAndIntervalCalled => (Len(results) >= 5 /\ InstantAndIntervalVerdict)

\* whenever the instant-and-interval check returns, that is when the parser
\* can interpret every string handed to it, its verdict is the one above
InstantAndIntervalVerdictWhenReturned ==
    (InstantAndIntervalCalled /\ Len(results) >= 5) => InstantAndIntervalVerdict

\* the values the UTC check is to examine: the timestamp member and every
\* interval endpoint longer than 11 characters
Examined(time_) ==
    (IF "timestamp" \in DOMAIN time_ THEN {time_.timestamp} ELSE {})
    \cup (IF "interval" \in DOMAIN time_
          THEN {time_.interval[i] : i \in {j \in DOMAIN time_.interval :
                                               Len(time_.interval[j]) > 11}}
          ELSE {})

InUTC(s) == dateutil_parse(s).ok /\ dateutil_parse(s).tzinfo = "UTC"

UtcCalled == Len(calls) >= 8 /\ calls[8] = "test_requirement_temporal_utc"

UtcVerdict ==
    /\ results[7].id = gen_test_id("req/core/utc")
    /\ "time" \notin DOMAIN data => results[7].code = "SKIPPED"
    /\ "time" \in DOMAIN data =>
           /\ results[7].code = "PASSED" <=> \A s \in Examined(data.time) : InUTC(s)
           /\ results[7].code = "FAILED" <=> \E s \in Examined(data.time) : ~InUTC(s)

\* C11: the UTC check returns SKIPPED without `time`; with it, it examines
\* the timestamp member and the interval endpoints longer than 11 characters
\* and returns PASSED iff all of them are in UTC, FAILED when one is not;
\* shorter endpoints have no influence.
C11_UtcResult == UtcCalled => (Len(results) >= 7 /\ UtcVerdict)

\* whenever the UTC check returns, that is when the parser can interpret
\* every value it examines, its verdict is the one above
UtcVerdictWhenReturned == (UtcCalled /\ Len(results) >= 7) => UtcVerdict

\* the distinct tuple lengths that occur anywhere in a geometry, rings included
TupleLengths(g) == {Len(c) : c \in GeometryTuples(g)}

CoordinateDimensionCalled ==
    Len(calls) >= 3 /\ calls[3] = "test_requirement_coordinate_dimension"

CoordinateDimensionVerdict ==
    /\ results[2].id = gen_test_id("req/core/coordinate-dimension")
    /\ "geometry" \notin DOMAIN data => results[2].code = "SKIPPED"
    /\ "geometry" \in DOMAIN data =>
           /\ results[2].code = "FAILED"
                  <=> Cardinality(TupleLengths(data.geometry)) > 1
           /\ results[2].code = "PASSED"
                  <=> Cardinality(TupleLengths(data.geometry)) = 1

\* C12: once the coordinate-dimension check has been called it has returned
\* a result: SKIPPED without a geometry; with one, FAILED iff more than one
\* distinct tuple length occurs among all coordinate tuples of the geometry
\* (nested rings included) and PASSED when all tuples have the same length.
C12_CoordinateDimensionResult ==
    CoordinateDimensionCalled => (Len(results) >= 2 /\ CoordinateDimensionVerdict)

\* what the code does guarantee: a result that is returned is SKIPPED or
\* PASSED as stated, and FAILED is never returned
CoordinateDimensionWhenReturned ==
    (CoordinateDimensionCalled /\ Len(results) >= 2) =>
        /\ results[2].code # "FAILED"
        /\ "geometry" \notin DOMAIN data => results[2].code = "SKIPPED"
        /\ "geometry" \in DOMAIN data =>
               (results[2].code = "PASSED"
                /\ Cardinality(TupleLengths(data.geometry)) = 1)

RemoteSource == startswith(file_or_url, "http")

ValidJson == json_load(source_text).ok

\* validate is past the loader
Loaded == cli \in {"run_tests", "echoed", "error"}

\* the loader failed: validate ended in an error before a suite existed
ParseFailure == cli = "error" /\ pc = "idle"

\* the suite was constructed on the decoded document and run_tests entered
SuiteRunsOnDocument ==
    /\ pc # "idle"
    /\ data = json_load(source_text).value

\* C13: once validate is past the loader, whichever kind of source was
\* given (local path or remote URL): the loader fails iff the text at the
\* source is not valid JSON, and for valid JSON the test suite runs on the
\* decoded document.
C13_LoadsEitherSource ==
    Loaded => /\ ParseFailure <=> ~ValidJson
              /\ ValidJson => SuiteRunsOnDocument

\* what the code does guarantee: the statement for a local path, and for a
\* remote URL a loader failure whatever the fetched bytes are
LoadsLocalSource ==
    Loaded => IF RemoteSource
              THEN ParseFailure /\ exc.args[1].type = "TypeError"
              ELSE /\ ParseFailure <=> ~ValidJson
                   /\ ValidJson => SuiteRunsOnDocument

\* how many times the schema-validation check has been invoked
ValidationCalls ==
    Cardinality({i \in DOMAIN calls : calls[i] = "test_requirement_validation"})

\* C14: in a run_tests call that returns a report the schema-validation
\* check was executed exactly once, the gate's result is the one placed in
\* tests, and the schema file was opened at most once.
C14_ValidationRunsOnce ==
    ReportReturned =>
        /\ ValidationCalls = 1
        /\ \E i \in DOMAIN ets_report.tests :
               ets_report.tests[i] = validation_result
        /\ schema_opens <= 1

\* what the code does: the check runs at the gate and again in the loop,
\* opening the schema file both times; the two results are equal
ValidationRunsTwice ==
    ReportReturned =>
        /\ ValidationCalls = 2
        /\ calls[1] = "test_requirement_validation"
        /\ calls[Len(calls)] = "test_requirement_validation"
        /\ ets_report.tests[Len(ets_report.tests)] = validation_result
        /\ schema_opens = 2
====
